---- MODULE Spec2Model ----
(***************************************************************************)
(* Tatiana-Server: the registration / test-result ingestion handlers and   *)
(* the archive query of every server iteration kept in the repository.     *)
(*                                                                         *)
(* The repository holds several complete server programs.  Each one is a   *)
(* value of `variant`:                                                     *)
(*   "A"    src/server.js 1-452          "B"    src/server.js 454-887      *)
(*   "P0"   src/unnamed/part_000         "P1"   src/unnamed/part_001       *)
(*   "P2"   src/unnamed/part_002         "P3a"  src/unnamed/part_003 1-249 *)
(*   "P3b"  src/unnamed/part_003 251-389 "P4"   src/unnamed/part_004       *)
(*   "P5b"  src/unnamed/part_005 74-349                                    *)
(* A behaviour runs one of them from process start.  A handler is split at *)
(* its awaits: one action per synchronous stretch of the handler.          *)
(***************************************************************************)
EXTENDS Integers, Sequences, FiniteSets, TLC

VARIABLES variant, env, srv, pool, clock, registrations, testResults, req, clients,
          boot

vars == <<variant, env, srv, pool, clock, registrations, testResults, req, clients,
          boot>>

(* ------------------------------ bounds --------------------------------- *)
\* request slots: the number of requests that can be in flight together
MaxReq == 2
\* Date.now() runs over 0..MaxClock
MaxClock == 1
\* rows the registrations / test_results table can hold before further writes
\* are no longer offered
MaxRegs == 2
MaxTests == 1
\* Math.random() suffixes are drawn from 1..MaxSuffix
MaxSuffix == 1
\* `max` of the Pool configuration: clients that can be checked out together
PoolMax == 2

Slots == 1..MaxReq

(* ------------------------------ values --------------------------------- *)
\* a JavaScript value that may be undefined / SQL NULL: <<>> or <<v>>
None == <<>>
Some(v) == <<v>>
IsSome(o) == Len(o) = 1
Val(o) == o[1]

\* !x for a string-valued and for a number-valued field
FalsyStr(o) == o = None \/ o = Some("")
FalsyNum(o) == o = None \/ o = Some(0)

Variants == {"A", "B", "P0", "P1", "P2", "P3a", "P3b", "P4", "P5b"}

(* --------------------- what each iteration is built of ----------------- *)
\* the iteration talks to PostgreSQL at all
HasDb(v) == v \notin {"P1", "P3b"}
HasTestRoute(v) == v \in {"A", "B", "P2", "P3a", "P4", "P5b"}
HasArchiveRoute(v) == v # "P0"
\* `let pool` that a handler tests before use
PoolGateFirst(v) == v = "P4"
PoolOptional(v) == v = "P5b"
\* registrationId carries '_' + Math.random().toString(36).substr(2, 9)
IdHasSuffix(v) == v \in {"B", "P2", "P4"}
\* test-result handler SELECTs the registration before the INSERT
LookupBeforeInsert(v) == v \in {"B", "P2"}
\* the archive token is a literal of the source rather than ARCHIVE_TOKEN
TokenHardcoded(v) == v = "A"
\* the Telegram credentials are literals of the source
TelegramHardcoded(v) == v = "A"

\* the symbols an Authorization header is made of; Bearer is the 7 characters
\* 'Bearer ', the others are pieces of token text
Bearer == "Bearer "
Secret == <<"k1", "k2">>
WrongToken == <<"k1">>
expectedToken == Secret

TelegramConfigured == TelegramHardcoded(variant) \/ env.telegram
ARCHIVE_TOKEN == IF TokenHardcoded(variant) THEN Some(expectedToken) ELSE env.archiveToken

(* --------------------------- request inputs ---------------------------- *)
ValidBody ==
  [lastName |-> Some("Ivanov"), firstName |-> Some("Ivan"), age |-> Some(30),
   phone |-> Some("+71234567890"), telegram |-> Some("@ivanov")]

RegBodies ==
  { ValidBody,
    [ValidBody EXCEPT !.lastName = None],
    [ValidBody EXCEPT !.lastName = Some("")],
    [ValidBody EXCEPT !.firstName = None],
    [ValidBody EXCEPT !.age = None],
    [ValidBody EXCEPT !.age = Some(0)],
    [ValidBody EXCEPT !.phone = None],
    [ValidBody EXCEPT !.telegram = None] }

\* if (!lastName || !firstName || !age || !phone || !telegram)
RegInvalid(b) ==
  FalsyStr(b.lastName) \/ FalsyStr(b.firstName) \/ FalsyNum(b.age)
    \/ FalsyStr(b.phone) \/ FalsyStr(b.telegram)

\* 'REG_' + Date.now()  and  'REG_' + Date.now() + '_' + <random>; sfx 0: no suffix
RegistrationId(t, s) == [t |-> t, sfx |-> s]
\* an id of the same form that no server run hands out
UnknownId == [t |-> 0 - 1, sfx |-> 0]

IdsOf(rows) == {rows[i].registration_id : i \in 1..Len(rows)}

FullTest ==
  [registrationId |-> None, level |-> Some("High"), score |-> Some(85),
   testData |-> Some([test_type |-> Some("extended")])]

TestShapes ==
  { FullTest,
    [FullTest EXCEPT !.score = Some(0)],
    [FullTest EXCEPT !.score = None],
    [FullTest EXCEPT !.level = None],
    [FullTest EXCEPT !.testData = None],
    [FullTest EXCEPT !.testData = Some([test_type |-> None])],
    [FullTest EXCEPT !.testData = Some([test_type |-> Some("regular")])] }

Headers ==
  { None,
    Some(<<Bearer>> \o Secret),
    Some(<<Bearer>> \o WrongToken),
    Some(Secret),
    Some(<<"k1", Bearer, "k2">>),
    Some(<<Bearer>>) }

(* ------------------------------ responses ------------------------------ *)
NoResp == [status |-> 0, success |-> FALSE, registrationId |-> None,
           records |-> <<>>, count |-> 0, leak |-> FALSE]
\* res.status(s).json({ success: false, error })
Failure(s, leak) == [NoResp EXCEPT !.status = s, !.leak = leak]
\* res.json({ success: true, registrationId, message })
RegOk(id) == [NoResp EXCEPT !.status = 200, !.success = TRUE, !.registrationId = Some(id)]
\* res.json({ success: true, message })
TestOk == [NoResp EXCEPT !.status = 200, !.success = TRUE]
\* an archive answer whose count is not taken from the records
ArchiveOkFixedCount(recs) ==
  [NoResp EXCEPT !.status = 200, !.success = TRUE, !.records = recs, !.count = 0]

\* res.json({ success: true, records, count: records.length })
ArchiveOk(recs) == [NoResp EXCEPT !.status = 200, !.success = TRUE,
                                  !.records = recs, !.count = Len(recs)]

IdleReq ==
  [kind |-> "none", pc |-> "idle", body |-> None, regId |-> None, resp |-> NoResp,
   notif |-> "none", inserted |-> FALSE, queried |-> FALSE, fault |-> "none",
   mustSee |-> {}]

\* a request takes the lowest slot that holds no request in flight; a slot keeps
\* the answer of its last request until it is taken again
Free(r) ==
  /\ req[r].pc \in {"idle", "done"}
  /\ \A x \in 1..(r - 1) : req[x].pc \notin {"idle", "done"}

\* a request answered before its first await touches nothing another request
\* can see, so it is taken when slot 1 is free: q is the request after its start
InOrder(r, q) == r = 1 \/ q.pc # "done"

(* ------------------------------- startup ------------------------------- *)
\* process.env as the iteration reads it; a setting it never reads is left unset
Envs(v) ==
  { [telegram |-> t /\ v \in {"B", "P2", "P3a", "P4"},
     archiveToken |-> IF t /\ HasArchiveRoute(v) /\ ~TokenHardcoded(v)
                      THEN Some(Secret) ELSE None] : t \in BOOLEAN }

\* the pool's clients: held by a running check, leaked (checked out by a check
\* that has ended), and whether the one-off table initialisation has run
NoClients == [held |-> 0, leaked |-> 0, ran |-> FALSE]

\* what the gated start-up has awaited successfully so far: the connection
\* test (dbConnected) and the table creation (tablesCreated)
NotBooted == [connected |-> FALSE, tables |-> FALSE]

Init ==
  /\ variant \in Variants
  /\ env \in Envs(variant)
  /\ srv = "init"
  /\ pool = FALSE
  /\ clock = 0
  /\ registrations = <<>>
  /\ testResults = <<>>
  /\ req = [r \in Slots |-> IdleReq]
  /\ clients = NoClients
  /\ boot = NotBooted

\* a start-up that never awaits the database before app.listen
GatedNever(v) == FALSE
\* startServer awaits testDatabaseConnection() and createTables() and calls
\* process.exit(1) when either returns false; app.listen comes after both
Gated(v) == v = "B"

\* startServer / top-level start-up code. dbOk: the database answers the
\* connection test; urlSet: DATABASE_URL is defined. An ungated start-up goes
\* straight to app.listen; the gated one listens only after createTables.
StartServer(dbOk, urlSet) ==
  /\ srv = "init"
  /\ srv' = IF Gated(variant) THEN (IF dbOk THEN "connected" ELSE "exited")
            ELSE "listening"
  /\ boot' = [boot EXCEPT !.connected = Gated(variant) /\ dbOk]
  /\ pool' = CASE PoolGateFirst(variant) -> urlSet
               [] PoolOptional(variant) -> FALSE
               [] OTHER -> HasDb(variant)
  /\ UNCHANGED <<clients, variant, env, clock, registrations, testResults, req>>

\* the second await of the gated startServer: createTables() returned dbOk;
\* false ends the process, true lets app.listen run
createTables(dbOk) ==
  /\ srv = "connected"
  /\ srv' = IF dbOk THEN "listening" ELSE "exited"
  /\ boot' = [boot EXCEPT !.tables = dbOk]
  /\ UNCHANGED <<clients, variant, env, pool, clock, registrations, testResults, req>>

\* setTimeout(() => { initDatabase(); }, 1000): `pool = new Pool(...)` is assigned
\* before the first connection is attempted
initDatabase ==
  /\ srv = "listening"
  /\ PoolOptional(variant)
  /\ ~pool
  /\ pool' = TRUE
  /\ UNCHANGED <<boot, clients, variant, env, srv, clock, registrations, testResults, req>>

\* the millisecond clock read by Date.now() and CURRENT_TIMESTAMP
Tick ==
  /\ clock < MaxClock
  /\ clock' = clock + 1
  /\ UNCHANGED <<boot, clients, variant, env, srv, pool, registrations, testResults, req>>

(* ---------------------------- notification ----------------------------- *)
\* how a write handler runs the Telegram call once the row is stored
NotifyMode(v) ==
  CASE v \in {"A", "P2", "P3a"} -> "await"
    [] v = "B" -> "timer"
    [] v = "P4" -> "detached"
    [] OTHER -> "none"

\* every notification function lets a failed fetch reject its promise
SendRejectsAlways(v, outcome) == outcome \in {"notok", "throw"}

\* the promise of the notification function rejects for this outcome of fetch
SendRejects(v, outcome) == v = "P4" /\ outcome \in {"notok", "throw"}

\* the 500 body carries error.message
LeaksError(v) == v \in {"A", "P0", "P2", "P3a"}

\* the handler after its INSERT resolved: dispatch the notification, answer
AfterInsert(q, okResp) ==
  IF NotifyMode(variant) # "none" /\ TelegramConfigured
  THEN CASE NotifyMode(variant) = "await" ->
              [q EXCEPT !.notif = "pending", !.pc = "notify"]
         [] NotifyMode(variant) = "timer" ->
              [q EXCEPT !.notif = "scheduled", !.pc = "done", !.resp = okResp]
         [] OTHER ->
              [q EXCEPT !.notif = "pending", !.pc = "done", !.resp = okResp]
  ELSE [q EXCEPT !.pc = "done", !.resp = okResp]

\* a handler that notifies from its catch block as well
QueryFailedNotifies(q, fault) ==
  [q EXCEPT !.pc = "done", !.fault = fault, !.notif = "pending",
            !.resp = Failure(500, LeaksError(variant))]

\* catch (error) { res.status(500).json({ success: false, error }) } of a handler
\* whose query was rejected
QueryFailed(q, fault) ==
  [q EXCEPT !.pc = "done", !.fault = fault, !.resp = Failure(500, LeaksError(variant))]

\* the success body of a write request
OkResp(q) == IF q.kind = "register" THEN RegOk(Val(q.regId)) ELSE TestOk

\* setTimeout(async () => { ... fetch ... }, 100) fires
NotifyTimer(r) ==
  /\ req[r].notif = "scheduled"
  /\ req' = [req EXCEPT ![r].notif = "pending"]
  /\ UNCHANGED <<boot, clients, variant, env, srv, pool, clock, registrations, testResults>>

\* what is remembered of a settled fetch
Settled(outcome) == IF outcome = "ok" THEN "ok" ELSE "failed"

\* the fetch to api.telegram.org settles: "ok", "notok" (API answers not-ok), "throw"
NotifyDone(r, outcome) ==
  /\ req[r].notif = "pending"
  /\ LET q == req[r] IN
     req' = [req EXCEPT ![r] =
       IF q.pc = "notify"
       THEN [q EXCEPT !.notif = Settled(outcome), !.pc = "done",
                      !.fault = IF SendRejects(variant, outcome) THEN "notify" ELSE "none",
                      !.resp = IF SendRejects(variant, outcome)
                               THEN Failure(500, LeaksError(variant))
                               ELSE OkResp(q)]
       ELSE [q EXCEPT !.notif = Settled(outcome)]]
  /\ UNCHANGED <<boot, clients, variant, env, srv, pool, clock, registrations, testResults>>

(* ------------------------- POST /api/register -------------------------- *)
\* an INSERT that overwrites the newest stored row instead of adding one
InsertIntoReplacing(rows, row) ==
  IF rows = <<>> THEN <<row>> ELSE SubSeq(rows, 1, Len(rows) - 1) \o <<row>>

\* INSERT INTO <table> ... VALUES (...): the table gains the row
InsertInto(rows, row) == Append(rows, row)

InFlight(kind) ==
  Cardinality({r \in Slots : req[r].kind = kind /\ req[r].pc \in {"lookup", "insert"}})

NewReq(kind, body) == [IdleReq EXCEPT !.kind = kind, !.body = body]

\* the handler up to its first await
RegisterStart(body, id) ==
  LET q == NewReq("register", body) IN
  IF PoolGateFirst(variant) /\ ~pool
    THEN [q EXCEPT !.pc = "done", !.fault = "nopool", !.resp = Failure(500, FALSE)]
  ELSE IF RegInvalid(body)
    THEN [q EXCEPT !.pc = "done", !.resp = Failure(400, FALSE)]
  ELSE IF ~HasDb(variant) \/ (PoolOptional(variant) /\ ~pool)
    THEN [q EXCEPT !.pc = "done", !.regId = Some(id), !.resp = RegOk(id)]
  ELSE [q EXCEPT !.pc = "insert", !.regId = Some(id)]

\* Math.random().toString(36).substr(2, 9): any suffix can come up
Suffixes(v) == IF IdHasSuffix(v) THEN 1..MaxSuffix ELSE {0}

Register(r, body, sfx) ==
  /\ srv = "listening"
  /\ Free(r)
  /\ Len(registrations) + InFlight("register") < MaxRegs
  /\ InOrder(r, RegisterStart(body, RegistrationId(clock, sfx)))
  /\ req' = [req EXCEPT ![r] = RegisterStart(body, RegistrationId(clock, sfx))]
  /\ UNCHANGED <<boot, clients, variant, env, srv, pool, clock, registrations, testResults>>

\* the row INSERT INTO registrations stores
RegistrationRow(q) ==
  [registration_id |-> Val(q.regId), last_name |-> Val(q.body.lastName),
   first_name |-> Val(q.body.firstName), age |-> Val(q.body.age),
   phone |-> Val(q.body.phone), telegram |-> Val(q.body.telegram),
   created_at |-> clock]

\* registration_id ... UNIQUE NOT NULL
RegistrationAccepted(q) == Val(q.regId) \notin IdsOf(registrations)

\* INSERT INTO registrations settles; dbOk: the database executed the statement
RegisterInsertDone(r, dbOk) ==
  /\ req[r].kind = "register"
  /\ req[r].pc = "insert"
  /\ IF dbOk /\ RegistrationAccepted(req[r])
     THEN /\ registrations' = InsertInto(registrations, RegistrationRow(req[r]))
          /\ req' = [req EXCEPT ![r] =
                       AfterInsert([@ EXCEPT !.inserted = TRUE], OkResp(@))]
     ELSE /\ registrations' = registrations
          /\ req' = [req EXCEPT ![r] =
                       QueryFailed(@, IF dbOk THEN "unique" ELSE "db")]
  /\ UNCHANGED <<boot, clients, variant, env, srv, pool, clock, testResults>>

(* ------------------------ POST /api/test-result ------------------------ *)
\* the validation of the request body, as each iteration writes it
TestInvalid(v, b) ==
  CASE v \in {"A", "P3a"} -> b.registrationId = None \/ FalsyStr(b.level)
    [] v \in {"B", "P2"} -> b.registrationId = None \/ b.testData = None
                              \/ FalsyStr(b.level) \/ b.score = None
    [] v = "P4" -> b.registrationId = None \/ FalsyStr(b.level) \/ b.score = None
    [] OTHER -> b.registrationId = None

\* testData?.test_type || 'regular'
TestType(b) ==
  IF b.testData = None \/ FalsyStr(Val(b.testData).test_type)
  THEN "regular" ELSE Val(Val(b.testData).test_type)

\* score || 0
ScoreOrZero(b) == IF FalsyNum(b.score) THEN 0 ELSE Val(b.score)

\* the row INSERT INTO test_results stores (None: NULL, or no such column)
TestRow(v, b) ==
  [registration_id |-> Val(b.registrationId),
   test_type |-> IF v \in {"A", "P3a", "P4"} THEN Some(TestType(b)) ELSE None,
   level |-> b.level,
   score |-> IF v \in {"A", "P3a"} THEN Some(ScoreOrZero(b)) ELSE b.score,
   created_at |-> clock]

\* a test_results table without the reference to registrations
TestAcceptedNoReference(v, row) ==
  v = "P5b" \/ (IsSome(row.level) /\ IsSome(row.score))

\* FOREIGN KEY (registration_id) REFERENCES registrations, and the NOT NULL columns
TestAccepted(v, row) ==
  /\ row.registration_id \in IdsOf(registrations)
  /\ v = "P5b" \/ (IsSome(row.level) /\ IsSome(row.score))

\* the handler up to its first await
TestStart(body) ==
  LET q == NewReq("test", body) IN
  IF PoolGateFirst(variant) /\ ~pool
    THEN [q EXCEPT !.pc = "done", !.fault = "nopool", !.resp = Failure(500, FALSE)]
  ELSE IF TestInvalid(variant, body)
    THEN [q EXCEPT !.pc = "done", !.resp = Failure(400, FALSE)]
  ELSE IF PoolOptional(variant) /\ ~pool
    THEN [q EXCEPT !.pc = "done", !.resp = TestOk]
  ELSE IF LookupBeforeInsert(variant)
    THEN [q EXCEPT !.pc = "lookup"]
  ELSE [q EXCEPT !.pc = "insert"]

\* the registration ids a client can have learnt
KnownIds ==
  IdsOf(registrations)
    \cup {Val(req[s].resp.registrationId) : s \in {x \in Slots : IsSome(req[x].resp.registrationId)}}

\* bodies offered: the full body for every id, also the bodies without score for
\* the id that was never issued, every shape for the first stored registration
TestBodies ==
  {FullTest}
    \cup {[sh EXCEPT !.registrationId = Some(UnknownId)] :
            sh \in {x \in TestShapes : x = FullTest \/ x.score = None}}
    \cup {[FullTest EXCEPT !.registrationId = Some(id)] : id \in KnownIds}
    \cup {[sh EXCEPT !.registrationId = Some(registrations[i].registration_id)] :
            sh \in TestShapes, i \in {j \in {1} : j <= Len(registrations)}}

TestResult(r, body) ==
  /\ srv = "listening"
  /\ HasTestRoute(variant)
  /\ Free(r)
  /\ Len(testResults) + InFlight("test") < MaxTests
  /\ InOrder(r, TestStart(body))
  /\ req' = [req EXCEPT ![r] = TestStart(body)]
  /\ UNCHANGED <<boot, clients, variant, env, srv, pool, clock, registrations, testResults>>

\* SELECT * FROM registrations WHERE registration_id = $1 settles
TestLookupDone(r, dbOk) ==
  /\ req[r].kind = "test"
  /\ req[r].pc = "lookup"
  /\ LET q == req[r] IN
     req' = [req EXCEPT ![r] =
       IF ~dbOk THEN QueryFailed(q, "db")
       ELSE IF Val(q.body.registrationId) \notin IdsOf(registrations)
         THEN [q EXCEPT !.pc = "done", !.resp = Failure(404, FALSE)]
       ELSE [q EXCEPT !.pc = "insert"]]
  /\ UNCHANGED <<boot, clients, variant, env, srv, pool, clock, registrations, testResults>>

\* INSERT INTO test_results settles
TestInsertDone(r, dbOk) ==
  /\ req[r].kind = "test"
  /\ req[r].pc = "insert"
  /\ LET q == req[r]
         row == TestRow(variant, q.body)
     IN IF dbOk /\ TestAccepted(variant, row)
        THEN /\ testResults' = InsertInto(testResults, row)
             /\ req' = [req EXCEPT ![r] =
                  IF variant = "P4"
                  THEN [q EXCEPT !.inserted = TRUE, !.pc = "userlookup"]
                  ELSE AfterInsert([q EXCEPT !.inserted = TRUE], TestOk)]
        ELSE /\ testResults' = testResults
             /\ req' = [req EXCEPT ![r] =
                  QueryFailed(q, IF dbOk THEN "constraint" ELSE "db")]
  /\ UNCHANGED <<boot, clients, variant, env, srv, pool, clock, registrations>>

\* SELECT first_name, last_name ... settles; a failure is caught and logged
UserLookupDone(r, dbOk) ==
  /\ req[r].kind = "test"
  /\ req[r].pc = "userlookup"
  /\ LET q == req[r] IN
     req' = [req EXCEPT ![r] =
       IF dbOk /\ Val(q.body.registrationId) \in IdsOf(registrations) /\ TelegramConfigured
       THEN [q EXCEPT !.notif = "pending", !.pc = "done", !.resp = TestOk]
       ELSE [q EXCEPT !.pc = "done", !.resp = TestOk]]
  /\ UNCHANGED <<boot, clients, variant, env, srv, pool, clock, registrations, testResults>>

(* --------------------------- GET /api/archive -------------------------- *)
\* String.prototype.replace('Bearer ', ''): the first occurrence is removed
ReplaceBearer(h) ==
  LET at == {i \in 1..Len(h) : h[i] = Bearer} IN
  IF at = {} THEN h
  ELSE LET k == CHOOSE i \in at : \A j \in at : i <= j
       IN SubSeq(h, 1, k - 1) \o SubSeq(h, k + 1, Len(h))

\* authHeader.startsWith('Bearer ')
StartsWithBearer(h) == Len(h) > 0 /\ h[1] = Bearer

\* an authorization check that only compares the token with the secret
AuthorizedByComparison(v, header) ==
  (IF header = None THEN None ELSE Some(ReplaceBearer(Val(header)))) = ARCHIVE_TOKEN

\* the authorization check of the archive handler
Authorized(v, header) ==
  IF v \in {"A", "P3a"}
  THEN /\ header # None
       /\ Val(header) # <<>>
       /\ StartsWithBearer(Val(header))
       /\ Some(ReplaceBearer(Val(header))) = ARCHIVE_TOKEN
  ELSE /\ header # None
       /\ ReplaceBearer(Val(header)) # <<>>
       /\ Some(ReplaceBearer(Val(header))) = ARCHIVE_TOKEN

\* an archive query without its WHERE clause
StrictArchiveNowhere(v) == FALSE

\* WHERE t.libido_level IS NOT NULL / WHERE t.registration_id IS NOT NULL
StrictArchive(v) == v \in {"A", "P4"}

\* LIMIT 1000, scaled to the table sizes of the model: the query returns at
\* most this many joined rows
ArchiveLimit == 1

\* registrations r LEFT JOIN test_results t ON r.registration_id = t.registration_id:
\* <<i, j>> joins registration i to test result j, <<i, 0>> to no test result
JoinPairs(v) ==
  {p \in (1..Len(registrations)) \X (0..Len(testResults)) :
     IF p[2] = 0
     THEN /\ ~StrictArchive(v)
          /\ \A j \in 1..Len(testResults) :
               testResults[j].registration_id # registrations[p[1]].registration_id
     ELSE testResults[p[2]].registration_id = registrations[p[1]].registration_id}

\* the joined rows in any order: the query without its ORDER BY clause
JoinOrdersUnordered(v) ==
  LET P == JoinPairs(v)
      n == Cardinality(P)
  IN {f \in [1..n -> P] : \A a, b \in 1..n : a # b => f[a] # f[b]}

\* ORDER BY r.created_at DESC: every order of the joined rows the clause allows
JoinOrders(v) ==
  LET P == JoinPairs(v)
      n == Cardinality(P)
  IN {f \in [1..n -> P] :
        /\ \A a, b \in 1..n : a # b => f[a] # f[b]
        /\ \A a \in 1..(n - 1) :
             registrations[f[a][1]].created_at >= registrations[f[a + 1][1]].created_at}

\* result.rows.map(row => ({ ... })): the record made of one joined row
ArchiveRecord(v, p) ==
  LET reg == registrations[p[1]] IN
  [registrationId |-> reg.registration_id,
   fio |-> IF v = "P5b" THEN None ELSE Some(reg.last_name \o " " \o reg.first_name),
   age |-> reg.age, phone |-> reg.phone, telegram |-> reg.telegram,
   level |-> IF p[2] = 0 THEN None ELSE testResults[p[2]].level,
   score |-> IF p[2] = 0 THEN None ELSE testResults[p[2]].score,
   date |-> IF p[2] # 0 /\ v \notin {"P4", "P5b"}
            THEN testResults[p[2]].created_at ELSE reg.created_at]

ArchiveResults(v) ==
  {LET n == IF v = "P3a" /\ Len(f) > ArchiveLimit THEN ArchiveLimit ELSE Len(f)
   IN [k \in 1..n |-> ArchiveRecord(v, f[k])] : f \in JoinOrders(v)}

\* the test results a client was told are saved, for a registration that is stored
AckedTests ==
  {[registrationId |-> Val(req[s].body.registrationId), level |-> req[s].body.level,
    score |-> req[s].body.score] :
     s \in {x \in Slots : /\ req[x].kind = "test"
                           /\ req[x].pc = "done"
                           /\ req[x].resp.success
                           /\ Val(req[x].body.registrationId) \in IdsOf(registrations)}}

\* the handler up to its first await
ArchiveStart(header) ==
  LET q == [NewReq("archive", header) EXCEPT !.mustSee = AckedTests] IN
  IF ~Authorized(variant, header)
    THEN [q EXCEPT !.pc = "done", !.resp = Failure(401, FALSE)]
  ELSE IF PoolGateFirst(variant) /\ ~pool
    THEN [q EXCEPT !.pc = "done", !.fault = "nopool", !.resp = Failure(500, FALSE)]
  ELSE IF ~HasDb(variant) \/ (PoolOptional(variant) /\ ~pool)
    THEN [q EXCEPT !.pc = "done", !.resp = ArchiveOk(<<>>)]
  ELSE [q EXCEPT !.pc = "query", !.queried = TRUE]

Archive(r, header) ==
  /\ srv = "listening"
  /\ HasArchiveRoute(variant)
  /\ Free(r)
  /\ InOrder(r, ArchiveStart(header))
  /\ req' = [req EXCEPT ![r] = ArchiveStart(header)]
  /\ UNCHANGED <<boot, clients, variant, env, srv, pool, clock, registrations, testResults>>

\* getArchiveData: catch (error) { return []; }
SwallowsArchiveError(v) == v = "A"

\* the archive SELECT settles
ArchiveQueryDone(r, dbOk, recs) ==
  /\ req[r].kind = "archive"
  /\ req[r].pc = "query"
  /\ LET q == req[r] IN
     req' = [req EXCEPT ![r] =
       IF dbOk THEN [q EXCEPT !.pc = "done", !.resp = ArchiveOk(recs)]
       ELSE IF SwallowsArchiveError(variant)
         THEN [q EXCEPT !.pc = "done", !.fault = "db", !.resp = ArchiveOk(<<>>)]
       ELSE QueryFailed(q, "db")]
  /\ UNCHANGED <<boot, clients, variant, env, srv, pool, clock, registrations, testResults>>

Next ==
  \/ \E dbOk \in BOOLEAN, urlSet \in BOOLEAN : StartServer(dbOk, urlSet)
  \/ \E dbOk \in BOOLEAN : createTables(dbOk)
  \/ initDatabase
  \/ Tick
  \/ \E r \in Slots, b \in RegBodies, s \in Suffixes(variant) : Register(r, b, s)
  \/ \E r \in Slots, dbOk \in BOOLEAN : RegisterInsertDone(r, dbOk)
  \/ \E r \in Slots, b \in TestBodies : TestResult(r, b)
  \/ \E r \in Slots, dbOk \in BOOLEAN : TestLookupDone(r, dbOk)
  \/ \E r \in Slots, dbOk \in BOOLEAN : TestInsertDone(r, dbOk)
  \/ \E r \in Slots, dbOk \in BOOLEAN : UserLookupDone(r, dbOk)
  \/ \E r \in Slots, h \in Headers : Archive(r, h)
  \/ \E r \in Slots, dbOk \in BOOLEAN, recs \in ArchiveResults(variant) :
       ArchiveQueryDone(r, dbOk, recs)
  \/ \E r \in Slots : NotifyTimer(r)
  \/ \E r \in Slots, o \in {"ok", "notok", "throw"} : NotifyDone(r, o)

Spec == Init /\ [][Next]_vars

(* ------------------- pooled clients: pool.connect() -------------------- *)
\* the iteration has code that checks a client out of the pool: a health
\* check, or the table initialisation
UsesPooledClient(v) == v \in {"A", "B", "P0", "P4", "P5b"}

\* the check runs queries on the client before client.release()
QueriesOnClient(v) == v \in {"A", "P0", "P4", "P5b"}

\* the check runs once per process (initDatabase) rather than per request
ChecksOnce(v) == v = "P5b"

\* client.release() is reached when a query on the client was rejected
ReleasesOnFailure(v) == FALSE

\* const client = await pool.connect() settles; connOk: a connection was made
CheckConnect(connOk) ==
  /\ srv = "listening"
  /\ UsesPooledClient(variant)
  /\ pool
  /\ ChecksOnce(variant) => ~clients.ran
  /\ clients.held + clients.leaked < PoolMax
  /\ clients' = [clients EXCEPT
                   !.ran = TRUE,
                   !.held = IF connOk /\ QueriesOnClient(variant) THEN @ + 1 ELSE @]
  /\ UNCHANGED <<boot, variant, env, srv, pool, clock, registrations, testResults, req>>

\* the queries run on the client settle; dbOk: none was rejected
CheckQueryDone(dbOk) ==
  /\ clients.held > 0
  /\ clients' = [clients EXCEPT
                   !.held = @ - 1,
                   !.leaked = IF dbOk \/ ReleasesOnFailure(variant) THEN @ ELSE @ + 1]
  /\ UNCHANGED <<boot, variant, env, srv, pool, clock, registrations, testResults, req>>

NextPool ==
  \/ \E dbOk \in BOOLEAN, urlSet \in BOOLEAN : StartServer(dbOk, urlSet)
  \/ \E dbOk \in BOOLEAN : createTables(dbOk)
  \/ initDatabase
  \/ Tick
  \/ \E connOk \in BOOLEAN : CheckConnect(connOk)
  \/ \E dbOk \in BOOLEAN : CheckQueryDone(dbOk)

SpecPool == Init /\ [][NextPool]_vars

(* ------------------------------- claims -------------------------------- *)
\* requests of one kind that have been answered
Answered(kind) == {r \in Slots : req[r].kind = kind /\ req[r].pc = "done"}

\* the datastore itself was unavailable or failed while the request ran
StoreFailed(q) == q.fault \in {"db", "nopool"}

\* C1: any two register calls with valid input, also within one clock
\* millisecond, each get a non-empty registrationId, and the two ids differ.
C1_DistinctIds ==
  /\ \A r \in Answered("register") :
        ~RegInvalid(req[r].body) /\ ~StoreFailed(req[r])
          => req[r].resp.success /\ IsSome(req[r].resp.registrationId)
  /\ \A r1, r2 \in Answered("register") :
        r1 # r2 /\ req[r1].resp.success /\ req[r2].resp.success
          => req[r1].resp.registrationId # req[r2].resp.registrationId

\* C2: a register call that reports success with a registrationId has stored a
\* registrations row with that id, also while the pool is not initialised.
C2_SuccessIsPersisted ==
  \A r \in Answered("register") :
    req[r].resp.success
      => /\ IsSome(req[r].resp.registrationId)
         /\ Val(req[r].resp.registrationId) \in IdsOf(registrations)

\* C3: a test result for a registrationId that was never created is answered
\* 404 and stores no test_results row.
C3_UnknownIdNotFound ==
  \A r \in Answered("test") :
    /\ req[r].body.registrationId = Some(UnknownId)
    /\ ~TestInvalid(variant, req[r].body)
    /\ ~StoreFailed(req[r])
    => /\ req[r].resp.status = 404
       /\ ~req[r].inserted
       /\ \A i \in 1..Len(testResults) : testResults[i].registration_id # UnknownId

\* C4: a register call with one of the five required fields absent or empty
\* is answered 400, stores no row and returns no id.
C4_InvalidRegistrationRejected ==
  \A r \in Answered("register") :
    RegInvalid(req[r].body)
      => /\ req[r].resp.status = 400
         /\ ~req[r].inserted
         /\ req[r].resp.registrationId = None

\* the header is 'Bearer ' followed by the configured shared secret
CorrectCredential(header) ==
  IsSome(ARCHIVE_TOKEN) /\ header = Some(<<Bearer>> \o Val(ARCHIVE_TOKEN))

\* C5: an archive call with a missing or incorrect credential is answered 401
\* and issues no query to the datastore.
C5_BadCredentialUnauthorized ==
  \A r \in Slots :
    req[r].kind = "archive" /\ ~CorrectCredential(req[r].body)
      => /\ ~req[r].queried
         /\ req[r].pc = "done" => req[r].resp.status = 401

\* a record of the archive answer carries the acknowledged test result m
Carries(rec, m) ==
  /\ rec.registrationId = m.registrationId
  /\ rec.level = m.level
  /\ IsSome(m.score) => rec.score = m.score

\* C6: once a test result was acknowledged for a stored registration, every
\* later archive call with the valid credential returns a record with that
\* registrationId, level and score.
C6_AcknowledgedTestListed ==
  \A r \in Answered("archive") :
    req[r].resp.success
      => \A m \in req[r].mustSee :
           \E k \in 1..Len(req[r].resp.records) : Carries(req[r].resp.records[k], m)

\* C7: when the notification call fails after the row was inserted, the write
\* request is answered with the same success result as when it succeeds.
C7_NotificationFailureIsolated ==
  \A r \in Slots :
    req[r].kind \in {"register", "test"} /\ req[r].notif = "failed"
      => req[r].pc = "done" /\ req[r].resp = OkResp(req[r])

C7_Witness ==
  \E r \in Slots :
    /\ req[r].kind \in {"register", "test"}
    /\ req[r].notif = "failed"
    /\ req[r].inserted
    /\ req[r].resp.success

\* C8: once the row is stored the response is sent without waiting for the
\* notification call; while a notification is outstanding the request has
\* already been answered.
C8_ResponseDoesNotWait ==
  \A r \in Slots :
    req[r].notif \in {"scheduled", "pending"} => req[r].pc = "done"

\* C9: a notification is dispatched only after the insert of the same request
\* completed; a request rejected by validation or by the not-found check, or
\* whose insert failed, dispatches none.
C9_NotifyOnlyAfterInsert ==
  \A r \in Slots : req[r].notif # "none" => req[r].inserted

C9_Witness ==
  \E r1, r2 \in Slots :
    /\ req[r1].kind = "test" /\ req[r1].inserted /\ req[r1].notif # "none"
    /\ req[r2].pc = "done" /\ req[r2].fault \in {"db", "unique", "constraint"}
    /\ req[r2].notif = "none"

\* C10: when the archive query fails, an archive call with the valid credential
\* is answered with a failure (success false, status 500), never with success
\* and an empty record list.
C10_ArchiveFailureReported ==
  \A r \in Answered("archive") :
    req[r].fault = "db"
      => ~req[r].resp.success /\ req[r].resp.status = 500

\* C11: in every reachable state, under any interleaving of register and
\* test-result requests, every stored test_results row carries the
\* registration_id of a stored registrations row.
C11_TestResultHasRegistration ==
  \A i \in 1..Len(testResults) : testResults[i].registration_id \in IdsOf(registrations)

C11_Witness ==
  /\ Len(testResults) > 0
  /\ \E r \in Answered("test") :
        /\ req[r].body.registrationId = Some(UnknownId)
        /\ req[r].fault = "constraint"
  /\ \E r \in Slots : req[r].kind = "register" /\ req[r].pc = "insert"

\* rows is still a prefix of rows2: every row is present and unchanged
Kept(rows, rows2) ==
  /\ Len(rows2) >= Len(rows)
  /\ \A i \in 1..Len(rows) : rows2[i] = rows[i]

\* C12: no operation of the service updates or deletes a stored row: across
\* every step each stored registrations row and each stored test_results row
\* is still present with the same values.
C12_RowsNeverChangeOrVanish ==
  [][Kept(registrations, registrations') /\ Kept(testResults, testResults')]_vars

C12_Witness ==
  /\ Len(registrations) = MaxRegs
  /\ Len(testResults) > 0
  /\ \E r \in Answered("archive") : Len(req[r].resp.records) > 0

\* C13: registering twice with identical valid field values yields two
\* successes with two different registrationIds and two separate stored rows;
\* the second call does not fail because of the first.
C13_NoDeduplication ==
  \A r1, r2 \in Answered("register") :
    /\ r1 # r2
    /\ req[r1].body = req[r2].body
    /\ ~RegInvalid(req[r1].body)
    /\ ~StoreFailed(req[r1]) /\ ~StoreFailed(req[r2])
    => /\ req[r1].resp.success /\ req[r2].resp.success
       /\ req[r1].regId # req[r2].regId
       /\ {Val(req[r1].regId), Val(req[r2].regId)} \subseteq IdsOf(registrations)

\* the stored registration a record of the archive answer was made of
RegistrationOf(rec) ==
  registrations[CHOOSE i \in 1..Len(registrations) :
                  registrations[i].registration_id = rec.registrationId]

\* C14: the records of an archive answer are in descending order of the
\* creation time of their registration: of two consecutive records the first
\* one's registration was created no earlier than the second one's.
C14_ArchiveNewestFirst ==
  \A r \in Answered("archive") :
    \A k \in 1..(Len(req[r].resp.records) - 1) :
      RegistrationOf(req[r].resp.records[k]).created_at
        >= RegistrationOf(req[r].resp.records[k + 1]).created_at

C14_Witness ==
  \E r \in Answered("archive") :
    /\ Len(req[r].resp.records) = 2
    /\ RegistrationOf(req[r].resp.records[1]).created_at
         > RegistrationOf(req[r].resp.records[2]).created_at

\* the record was made of a joined row that has a test result
HasTestResult(rec) == IsSome(rec.level) \/ IsSome(rec.score)

\* C15: every record of an archive answer has fio = lastName + " " + firstName
\* of its registration, and date = the creation time of its test result when
\* it has one, else the creation time of its registration.
C15_RecordNameAndDate ==
  \A r \in Answered("archive") :
    \A k \in 1..Len(req[r].resp.records) :
      LET rec == req[r].resp.records[k]
          reg == RegistrationOf(rec)
      IN /\ rec.fio = Some(reg.last_name \o " " \o reg.first_name)
         /\ IF HasTestResult(rec)
            THEN \E j \in 1..Len(testResults) :
                   /\ testResults[j].registration_id = rec.registrationId
                   /\ testResults[j].level = rec.level
                   /\ testResults[j].score = rec.score
                   /\ testResults[j].created_at = rec.date
            ELSE rec.date = reg.created_at

\* C16: from an empty store, registering Ivanov Ivan succeeds, submitting
\* {that id, level High, score 85} succeeds, and a following archive call with
\* the correct credential returns exactly one record, with fio "Ivanov Ivan",
\* level "High" and score 85.
C16_EndToEndScenario ==
  \A r \in Answered("archive") :
    /\ CorrectCredential(req[r].body)
    /\ ~StoreFailed(req[r])
    /\ Len(registrations) = 1
    /\ Len(testResults) = 1
    /\ registrations[1].last_name = "Ivanov" /\ registrations[1].first_name = "Ivan"
    /\ req[r].mustSee = {[registrationId |-> registrations[1].registration_id,
                          level |-> Some("High"), score |-> Some(85)]}
    => /\ req[r].resp.success
       /\ Len(req[r].resp.records) = 1
       /\ req[r].resp.records[1].fio = Some("Ivanov Ivan")
       /\ req[r].resp.records[1].level = Some("High")
       /\ req[r].resp.records[1].score = Some(85)

\* C17: a test-result call with registrationId absent or empty, or level absent
\* or empty, is answered 400, stores no test_results row and dispatches no
\* notification.
C17_InvalidTestResultRejected ==
  \A r \in Answered("test") :
    FalsyStr(req[r].body.level) \/ req[r].body.registrationId = None
      => /\ req[r].resp.status = 400
         /\ ~req[r].inserted
         /\ req[r].notif = "none"

\* C18: when a datastore write or query fails, the answer is a failure
\* (success false) whose error string is a fixed message that does not carry
\* the text of the datastore error.
C18_StoreErrorNotExposed ==
  \A r \in Slots :
    req[r].pc = "done" /\ req[r].fault \in {"db", "unique", "constraint", "nopool"}
      => ~req[r].resp.success /\ ~req[r].resp.leak

C20_ExactBearerHeader ==
  \A r \in Answered("archive") :
    /\ req[r].resp.status # 401 => CorrectCredential(req[r].body)
    /\ req[r].body = Some(Secret) => req[r].resp.status = 401

\* C21: when no shared secret is configured (ARCHIVE_TOKEN unset) every
\* archive request is answered 401 and issues no query, whatever credential it
\* presents, an absent or empty one included.
C21_NoSecretNoAccess ==
  \A r \in Slots :
    req[r].kind = "archive" /\ ARCHIVE_TOKEN = None
      => /\ ~req[r].queried
         /\ req[r].pc = "done"
         /\ req[r].resp.status = 401

C21_Witness ==
  /\ ARCHIVE_TOKEN = None
  /\ \E r \in Answered("archive") :
        req[r].body = None /\ req[r].resp.status = 401

\* C22: every client obtained with pool.connect() is released on every path,
\* the path where a query on it fails included: when no health check or
\* table initialisation is running, no client is checked out.
C22_ClientsReleased ==
  clients.held = 0 => clients.held + clients.leaked = 0

\* the archive query of slot r is answered by the datastore in this step
ArchiveAnswered(r) ==
  /\ req[r].kind = "archive" /\ req[r].pc = "query"
  /\ req'[r].pc = "done" /\ req'[r].fault = "none"

\* the records of the answer that carry stored test result j
RecordsOfTest(recs, j) ==
  {k \in 1..Len(recs) : /\ recs[k].registrationId = testResults[j].registration_id
                         /\ recs[k].level = testResults[j].level
                         /\ recs[k].score = testResults[j].score}

TestsOf(i) ==
  {j \in 1..Len(testResults) :
     testResults[j].registration_id = registrations[i].registration_id}

\* C24: in the permissive-archive iterations (plain LEFT JOIN) an archive
\* answer holds every stored registration: once with null level and score
\* when it has no test result, k times when it has k >= 1 test results.
C24_PermissiveArchiveListsAll ==
  [][\A r \in Slots :
       ArchiveAnswered(r) /\ variant \in {"B", "P2", "P3a", "P5b"}
         => LET recs == req'[r].resp.records IN
            \A i \in 1..Len(registrations) :
              LET mine == {k \in 1..Len(recs) :
                             recs[k].registrationId = registrations[i].registration_id}
              IN IF TestsOf(i) = {}
                 THEN /\ Cardinality(mine) = 1
                      /\ \A k \in mine : recs[k].level = None /\ recs[k].score = None
                 ELSE Cardinality(mine) = Cardinality(TestsOf(i))]_vars

\* the test-result request of slot r stored row j
StoredBy(r, j) ==
  /\ req[r].inserted
  /\ testResults[j].registration_id = Val(req[r].body.registrationId)
  /\ testResults[j].level = req[r].body.level

\* C25: in the iterations that require score, a test-result request without
\* score is answered 400 and stores nothing, and a request with score 0 is
\* accepted and stored with score 0.
C25_StrictScore ==
  \A r \in Answered("test") :
    variant \in {"B", "P2", "P4"}
      => /\ req[r].body.score = None
              => req[r].resp.status = 400 /\ ~req[r].inserted
         /\ /\ req[r].body.score = Some(0)
            /\ Val(req[r].body.registrationId) \in IdsOf(registrations)
            /\ req[r].fault \notin {"db", "constraint"}
            => /\ req[r].resp.success
               /\ \E j \in 1..Len(testResults) :
                     StoredBy(r, j) /\ testResults[j].score = Some(0)

\* C26: in the iterations that do not require score, a test-result request
\* with valid registrationId and level but no score succeeds, and the stored
\* row has score 0.
C26_ScoreDefaultsToZero ==
  \A r \in Answered("test") :
    /\ variant \in {"A", "P3a", "P5b"}
    /\ req[r].body.score = None
    /\ ~FalsyStr(req[r].body.level)
    /\ Val(req[r].body.registrationId) \in IdsOf(registrations)
    /\ req[r].fault = "none"
    /\ pool
    => /\ req[r].resp.success
       /\ \E j \in 1..Len(testResults) :
             StoredBy(r, j) /\ testResults[j].score = Some(0)

\* C27: a test-result request without a test type (testData absent, or
\* testData without test_type) is stored with test type "regular".
C27_TestTypeDefaultsToRegular ==
  \A r \in Answered("test") :
    /\ req[r].inserted
    /\ req[r].body.testData = None \/ FalsyStr(Val(req[r].body.testData).test_type)
    => \E j \in 1..Len(testResults) :
         StoredBy(r, j) /\ testResults[j].test_type = Some("regular")

\* the request of slot r carries input its handler's validation rejects
InvalidInput(r) ==
  \/ req[r].kind = "register" /\ RegInvalid(req[r].body)
  \/ req[r].kind = "test" /\ TestInvalid(variant, req[r].body)

\* C28: register and test-result requests with invalid input are answered
\* 400 whether or not the datastore is available; a 500 for an unavailable
\* datastore is given only to requests whose input passed validation.
C28_ValidationBeforeDatastore ==
  \A r \in Slots :
    req[r].pc = "done" /\ req[r].kind \in {"register", "test"}
      => /\ InvalidInput(r) => req[r].resp.status = 400
         /\ req[r].resp.status = 500 => ~InvalidInput(r)

\* C30: a register request with age 0 and the other four fields valid is
\* answered 400 and no row is written.
C30_AgeZeroRejected ==
  \A r \in Answered("register") :
    req[r].body = [ValidBody EXCEPT !.age = Some(0)]
      => /\ req[r].resp.status = 400
         /\ ~req[r].inserted
         /\ req[r].regId = None

\* C29: in the gated-startup iteration the server listens only after the
\* connection test and the table creation have both succeeded; when either
\* fails the process has exited and no request has ever been accepted.
C29_GatedStartup ==
  variant = "B" =>
    /\ srv = "listening" => boot.connected /\ boot.tables
    /\ srv \in {"listening", "exited"} /\ ~(boot.connected /\ boot.tables)
         => srv = "exited"
    /\ srv # "listening" => \A r \in Slots : req[r] = IdleReq

\* the gated iteration is listening and has answered a request
C29_Witness ==
  /\ variant = "B"
  /\ srv = "listening"
  /\ boot.connected /\ boot.tables
  /\ \E r \in Slots : req[r].pc = "done"

====
